---- MODULE Spec2Model ----
(***************************************************************************)
(* A model of the azurerm resource handlers for network security groups   *)
(* (resource_arm_network_security_group.go) and automation accounts       *)
(* (resource_arm_automation_account.go), and of the container registry    *)
(* name validation exercised by the registry test file.                   *)
(*                                                                         *)
(* Optional values (Go pointers) are sequences of length 0 or 1; optional *)
(* strings use the sentinel Nil.  Strings whose characters matter (names  *)
(* under validation, locations under normalisation) are sequences of      *)
(* one-character strings.  A map with optional keys is a function whose   *)
(* DOMAIN is the set of keys present.                                     *)
(***************************************************************************)
EXTENDS Integers, Sequences, FiniteSets, TLC

VARIABLES
    remote,     \* Azure: network security group name -> <<>> or <<object>>
    locks,      \* armMutexKV: name -> <<>> or <<process holding the lock>>
    cfg,        \* per process: the configuration Terraform hands the handler
    d,          \* per process: schema.ResourceData state (id and attributes)
    pc,         \* per process: position in the running handler
    ret,        \* per process: what the last handler call returned
    readID,     \* per process: read.ID kept by create from its follow-up Get
    polls,      \* per process: refreshes WaitForState has made
    observed,   \* per process: provisioning state the last refresh returned
    opsLeft,    \* handler calls Terraform still makes
    rd,         \* a single Read call: resource kind, local data, Get response, result
    nameIn,     \* container registry name under validation
    nameErrs,   \* <<>> or <<number of errors the validation returned>>
    ruleCfg,    \* security_rule list under expand/flatten
    ruleSdk,    \* <<>> or <<result of expandAzureRmSecurityRules>>
    ruleFlat,   \* <<>> or <<result of flattenNetworkSecurityRules>>
    crud         \* one resource whose handlers are called one after another

vars == <<remote, locks, cfg, d, pc, ret, readID, polls, observed, opsLeft,
          rd, nameIn, nameErrs, ruleCfg, ruleSdk, ruleFlat, crud>>

nsgVars == <<remote, locks, cfg, d, pc, ret, readID, polls, observed, opsLeft>>
nameVars == <<nameIn, nameErrs>>
ruleVars == <<ruleCfg, ruleSdk, ruleFlat>>

\* What the steps of one part of the model leave alone
notNsg == <<rd, nameVars, ruleVars, crud>>
notName == <<nsgVars, rd, ruleVars, crud>>
notRule == <<nsgVars, rd, nameVars, crud>>
notRd == <<nsgVars, nameVars, ruleVars, crud>>
notSeq == <<nsgVars, rd, nameVars, ruleVars>>

----------------------------------------------------------------------------
(* Bounds *)

NumProcs == 2
MaxOps == 3
MaxPolls == 2
MaxRules == 3
MaxNameLen == 51

Procs == 1..NumProcs

Nil == "<nil>"
None == <<>>
Some(x) == <<x>>

----------------------------------------------------------------------------
(* Security rules: expand and flatten *)

Int32Max == 2147483647

\* int32(x) for a Go int x: x wrapped into -2^31 .. 2^31 - 1
ToInt32(x) ==
    IF x > Int32Max THEN x - Int32Max - Int32Max - 2
    ELSE IF x < (-Int32Max) - 1 THEN x + Int32Max + Int32Max + 2
    ELSE x

RuleKeys == {"name", "description", "protocol", "source_port_range",
             "destination_port_range", "source_address_prefix",
             "destination_address_prefix", "access", "priority", "direction"}

\* map[string]interface{} with key k set when the pointer v is non-nil
SetIfPresent(k, v) == IF v = Nil THEN <<>> ELSE (k :> v)

FlattenRulePropsSwapped(props) ==
    SetIfPresent("destination_address_prefix", props.DestinationAddressPrefix)
    @@ SetIfPresent("destination_port_range", props.SourcePortRange)
    @@ SetIfPresent("source_address_prefix", props.SourceAddressPrefix)
    @@ SetIfPresent("source_port_range", props.DestinationPortRange)
    @@ ("priority" :> props.Priority)
    @@ ("access" :> props.Access)
    @@ ("direction" :> props.Direction)
    @@ ("protocol" :> props.Protocol)
    @@ SetIfPresent("description", props.Description)

FlattenRuleProps(props) ==
    SetIfPresent("destination_address_prefix", props.DestinationAddressPrefix)
    @@ SetIfPresent("destination_port_range", props.DestinationPortRange)
    @@ SetIfPresent("source_address_prefix", props.SourceAddressPrefix)
    @@ SetIfPresent("source_port_range", props.SourcePortRange)
    @@ ("priority" :> props.Priority)
    @@ ("access" :> props.Access)
    @@ ("direction" :> props.Direction)
    @@ ("protocol" :> props.Protocol)
    @@ SetIfPresent("description", props.Description)

FlattenRule(rule) ==
    ("name" :> rule.Name)
    @@ (IF rule.Props # None THEN FlattenRuleProps(rule.Props[1]) ELSE <<>>)

\* rules is <<>> (nil pointer) or <<list of SDK rules>>
flattenNetworkSecurityRules(rules) ==
    IF rules = None THEN <<>>
    ELSE [i \in 1..Len(rules[1]) |-> FlattenRule(rules[1][i])]

ExpandRule(data) ==
    [Name |-> data["name"],
     Props |-> Some([SourcePortRange |-> data["source_port_range"],
                     DestinationPortRange |-> data["destination_port_range"],
                     SourceAddressPrefix |-> data["source_address_prefix"],
                     DestinationAddressPrefix |-> data["destination_address_prefix"],
                     Priority |-> ToInt32(data["priority"]),
                     Access |-> data["access"],
                     Direction |-> data["direction"],
                     Protocol |-> data["protocol"],
                     Description |-> IF data["description"] # ""
                                     THEN data["description"] ELSE Nil])]

\* returns the rule list and the (always nil) error
expandAzureRmSecurityRules(sgRules) ==
    [rules |-> [i \in 1..Len(sgRules) |-> ExpandRule(sgRules[i])],
     err |-> Nil]

\* A configured rule as d.Get("security_rule") yields it: every schema key is
\* present, an unset description is "".
CfgRule(name, desc, proto, spr, dpr, sap, dap, access, prio, dir) ==
    [k \in RuleKeys |->
        CASE k = "name" -> name
          [] k = "description" -> desc
          [] k = "protocol" -> proto
          [] k = "source_port_range" -> spr
          [] k = "destination_port_range" -> dpr
          [] k = "source_address_prefix" -> sap
          [] k = "destination_address_prefix" -> dap
          [] k = "access" -> access
          [] k = "priority" -> prio
          [] k = "direction" -> dir]

PriorityMin == 100
PriorityMax == 4096

CfgRules ==
    {CfgRule("ssh", "", "Tcp", "*", "22", "10.0.0.0/8", "*", "Allow", PriorityMin, "Inbound"),
     CfgRule("web", "allow web", "tcp", "1024-65535", "443", "*", "VirtualNetwork",
             "allow", 200, "inbound"),
     CfgRule("dns", "", "Udp", "53", "*", "Internet", "10.1.0.0/16", "Deny",
             PriorityMax, "Outbound"),
     CfgRule("ssh", "block all", "*", "*", "*", "*", "*", "Deny", 300, "Inbound")}

RECURSIVE SeqsUpTo(_, _)
SeqsUpTo(S, n) ==
    IF n = 0 THEN {<<>>}
    ELSE LET shorter == SeqsUpTo(S, n - 1)
         IN shorter \cup {Append(s, x) : s \in {t \in shorter : Len(t) = n - 1}, x \in S}

RuleInit ==
    /\ ruleCfg \in SeqsUpTo(CfgRules, MaxRules)
    /\ ruleSdk = None
    /\ ruleFlat = None

RuleIdle ==
    /\ ruleCfg = <<>>
    /\ ruleSdk = None
    /\ ruleFlat = None

ExpandRules ==
    /\ ruleSdk = None
    /\ ruleSdk' = Some(expandAzureRmSecurityRules(ruleCfg).rules)
    /\ UNCHANGED <<ruleCfg, ruleFlat>>
    /\ UNCHANGED notRule

FlattenRules ==
    /\ ruleSdk # None
    /\ ruleFlat = None
    /\ ruleFlat' = Some(flattenNetworkSecurityRules(ruleSdk))
    /\ UNCHANGED <<ruleCfg, ruleSdk>>
    /\ UNCHANGED notRule

----------------------------------------------------------------------------
(* Container registry name validation *)

Letters == {"a", "b", "c", "d", "e", "f", "g", "h", "i", "j", "k", "l", "m",
            "n", "o", "p", "q", "r", "s", "t", "u", "v", "w", "x", "y", "z",
            "A", "B", "C", "D", "E", "F", "G", "H", "I", "J", "K", "L", "M",
            "N", "O", "P", "Q", "R", "S", "T", "U", "V", "W", "X", "Y", "Z"}
Digits == {"0", "1", "2", "3", "4", "5", "6", "7", "8", "9"}
OtherChars == {"-", "_", "@", " ", "."}

NameMinLen == 5
NameLimit == 50

IsAlphaNumeric(s) == \A i \in 1..Len(s) : s[i] \in Letters \cup Digits

\* The errors the validation appends, in order, with the limit off by one
validateNameLimitOffByOne(value) ==
    (IF ~IsAlphaNumeric(value) THEN <<"alpha numeric characters only">> ELSE <<>>)
    \o (IF Len(value) < NameMinLen THEN <<"cannot be less than 5 characters">> ELSE <<>>)
    \o (IF Len(value) > NameLimit THEN <<"cannot be longer than 50 characters">> ELSE <<>>)

\* The errors the validation appends, in order
validateAzureRMContainerRegistryName(value) ==
    (IF ~IsAlphaNumeric(value) THEN <<"alpha numeric characters only">> ELSE <<>>)
    \o (IF Len(value) < NameMinLen THEN <<"cannot be less than 5 characters">> ELSE <<>>)
    \o (IF Len(value) >= NameLimit THEN <<"cannot be longer than 50 characters">> ELSE <<>>)

\* The table of TestAccAzureRMContainerRegistryName_validation
TestCases ==
    {
     [Value |-> <<"f", "o", "u", "r">>,
      ErrCount |-> 1],
     [Value |-> <<"5", "f", "i", "v", "e">>,
      ErrCount |-> 0],
     [Value |-> <<"h", "e", "l", "l", "o", "-", "w", "o", "r", "l", "d">>,
      ErrCount |-> 1],
     [Value |-> <<"h", "e", "l", "l", "o", "_", "w", "o", "r", "l", "d">>,
      ErrCount |-> 1],
     [Value |-> <<"h", "e", "l", "l", "o", "W", "o", "r", "l", "d">>,
      ErrCount |-> 0],
     [Value |-> <<"h", "e", "l", "l", "o", "w", "o", "r", "l", "d", "1", "2">>,
      ErrCount |-> 0],
     [Value |-> <<"h", "e", "l", "l", "o", "@", "w", "o", "r", "l", "d">>,
      ErrCount |-> 1],
     [Value |-> <<"q", "f", "v", "b", "d", "s", "b", "v", "i", "p", "q", "d", "b",
                   "w", "s", "b", "d", "d", "b", "d", "c", "w", "q", "f", "f", "e",
                   "w", "s", "q", "w", "c", "d", "w", "2", "1", "d", "d", "w", "q",
                   "w", "d", "3", "3", "2", "4", "1", "2", "0">>,
      ErrCount |-> 0],
     [Value |-> <<"q", "f", "v", "b", "d", "s", "b", "v", "i", "p", "q", "d", "b",
                   "w", "s", "b", "d", "d", "b", "d", "c", "w", "q", "f", "f", "e",
                   "w", "s", "q", "w", "c", "d", "w", "2", "1", "d", "d", "w", "q",
                   "w", "d", "3", "3", "2", "4", "1", "2", "0", "2">>,
      ErrCount |-> 0],
     [Value |-> <<"q", "f", "v", "b", "d", "s", "b", "v", "i", "p", "q", "d", "b",
                   "w", "s", "b", "d", "d", "b", "d", "c", "w", "q", "f", "j", "j",
                   "f", "e", "w", "s", "q", "w", "c", "d", "w", "2", "1", "d", "d",
                   "w", "q", "w", "d", "3", "3", "2", "4", "1", "2", "0">>,
      ErrCount |-> 1]
    }

FillChars == <<"a", "Z", "7", "q", "0">>

\* A name of length len, alphanumeric but for character bad at position pos
\* (pos = 0: no such position)
MakeName(len, pos, bad) ==
    [i \in 1..len |-> IF i = pos THEN bad ELSE FillChars[(i % Len(FillChars)) + 1]]

NameInputs ==
    {MakeName(len, pos, bad) : len \in 1..MaxNameLen, pos \in 0..3, bad \in OtherChars}
    \cup {MakeName(len, len, bad) : len \in 1..MaxNameLen, bad \in OtherChars}
    \cup {tc.Value : tc \in TestCases}

NameInit ==
    /\ nameIn \in NameInputs
    /\ nameErrs = None

NameIdle ==
    /\ nameIn = <<>>
    /\ nameErrs = None

ValidateName ==
    /\ nameErrs = None
    /\ nameErrs' = Some(Len(validateAzureRMContainerRegistryName(nameIn)))
    /\ UNCHANGED nameIn
    /\ UNCHANGED notName

----------------------------------------------------------------------------
(* Resource IDs, locations, tags *)

Names == {"nsgA", "nsgB"}
ResGroup == "rg1"

\* /resourceGroups/<rg>/providers/.../<type>/<name>, as its path segments
ResourceID(rg, type, name) == <<"resourceGroups", rg, type, name>>

\* The segments paired up as key/value; fails on "" and on an odd number of
\* segments or a missing resource group
parseAzureResourceID(id) ==
    IF Len(id) = 0 \/ Len(id) % 2 # 0 \/ id[1] # "resourceGroups"
    THEN [err |-> "cannot parse Azure ID", ResourceGroup |-> "", Path |-> <<>>]
    ELSE [err |-> Nil,
          ResourceGroup |-> id[2],
          Path |-> [k \in {id[i] : i \in {j \in 3..Len(id) : j % 2 = 1}} |->
                      id[(CHOOSE i \in 3..Len(id) : i % 2 = 1 /\ id[i] = k) + 1]]]

\* Go's map lookup: the zero value "" for a missing key
PathLookup(path, k) == IF k \in DOMAIN path THEN path[k] ELSE ""

UpperCase == <<"A", "B", "C", "D", "E", "F", "G", "H", "I", "J", "K", "L", "M",
               "N", "O", "P", "Q", "R", "S", "T", "U", "V", "W", "X", "Y", "Z">>
LowerCase == <<"a", "b", "c", "d", "e", "f", "g", "h", "i", "j", "k", "l", "m",
               "n", "o", "p", "q", "r", "s", "t", "u", "v", "w", "x", "y", "z">>

ToLowerChar(c) ==
    IF \E i \in 1..Len(UpperCase) : UpperCase[i] = c
    THEN LowerCase[CHOOSE i \in 1..Len(UpperCase) : UpperCase[i] = c]
    ELSE c

IsNotSpace(c) == c # " "

\* lower case, spaces removed
azureRMNormalizeLocation(location) ==
    SelectSeq([i \in 1..Len(location) |-> ToLowerChar(location[i])], IsNotSpace)

\* map[string]*string to map[string]interface{}
flattenTags(tags) == [k \in DOMAIN tags |-> tags[k]]

ResponseWasNotFound(resp) == resp.StatusCode = 404

Locations == <<(<<"W", "e", "s", "t", " ", "U", "S">>),
               (<<"e", "a", "s", "t", "u", "s">>),
               (<<"N", "o", "r", "t", "h", "E", "U">>)>>

TagMaps == <<("env" :> "prod"), (<<>>), ("env" :> "test" @@ "cost" :> "c1")>>

RuleLists == <<(<<CfgRule("ssh", "", "Tcp", "*", "22", "10.0.0.0/8", "*", "Allow",
                          PriorityMin, "Inbound")>>),
               (<<>>),
               (<<CfgRule("web", "allow web", "tcp", "1024-65535", "443", "*",
                          "VirtualNetwork", "allow", 200, "inbound"),
                  CfgRule("dns", "", "Udp", "53", "*", "Internet", "10.1.0.0/16",
                          "Deny", PriorityMax, "Outbound")>>)>>

Pick(seq, p) == seq[((p - 1) % Len(seq)) + 1]

----------------------------------------------------------------------------
(* Network security group: Read, as a function of local data and Get's answer *)

NsgType == "networkSecurityGroups"

\* A Get answer: err is Nil or an error; on success the body is the SDK's
\* network.SecurityGroup (Props: <<>> or <<[SecurityRules, ProvisioningState]>>)
GetError(status) ==
    [err |-> "request failed", StatusCode |-> status, ID |-> None, Name |-> Nil,
     Location |-> <<>>, Props |-> None, Tags |-> <<>>]

GetOK(id, name, location, props, tags) ==
    [err |-> Nil, StatusCode |-> 200, ID |-> id, Name |-> name,
     Location |-> location, Props |-> props, Tags |-> tags]

\* Lines 191-199 leaving the location as the service spells it
NsgSetAttributesRawLocation(data, resGroup, resp) ==
    [data EXCEPT !.name = resp.Name,
                 !.resource_group_name = resGroup,
                 !.location = resp.Location,
                 !.security_rule = IF resp.Props # None
                                   THEN flattenNetworkSecurityRules(resp.Props[1].SecurityRules)
                                   ELSE @,
                 !.tags = flattenTags(resp.Tags)]

\* Lines 191-199: the d.Set calls after a successful Get
NsgSetAttributes(data, resGroup, resp) ==
    [data EXCEPT !.name = resp.Name,
                 !.resource_group_name = resGroup,
                 !.location = azureRMNormalizeLocation(resp.Location),
                 !.security_rule = IF resp.Props # None
                                   THEN flattenNetworkSecurityRules(resp.Props[1].SecurityRules)
                                   ELSE @,
                 !.tags = flattenTags(resp.Tags)]

\* Lines 183-189 clearing the ID on every Get error
NsgReadGetFailedAlwaysGone(data, resp) ==
    [d |-> [data EXCEPT !.id = <<>>], err |-> Nil]

\* Lines 183-189: the Get returned an error
NsgReadGetFailed(data, resp) ==
    IF ResponseWasNotFound(resp)
    THEN [d |-> [data EXCEPT !.id = <<>>], err |-> Nil]
    ELSE [d |-> data, err |-> "Error making Read request on Azure Network Security Group"]

\* Lines 182-201: the handler from Get's answer on
NsgReadResponse(data, resGroup, resp) ==
    IF resp.err # Nil
    THEN NsgReadGetFailed(data, resp)
    ELSE [d |-> NsgSetAttributes(data, resGroup, resp), err |-> Nil]

\* Lines 175-180: what Read asks Get for; err set when the ID does not parse
NsgReadTarget(data) ==
    LET id == parseAzureResourceID(data.id)
    IN [err |-> id.err, resGroup |-> id.ResourceGroup,
        name |-> PathLookup(id.Path, NsgType)]

----------------------------------------------------------------------------
(* Network security group: the handlers running concurrently against Azure *)

PendingAlsoFailed == {"Updating", "Creating", "Failed"}

\* Line 157
Pending == {"Updating", "Creating"}

TargetAlsoUpdating == {"Succeeded", "Updating"}

\* Line 158
Target == {"Succeeded"}

expandTags(tags) == [k \in DOMAIN tags |-> tags[k]]

\* The configuration of resource instance p, named name
Config(p, name) ==
    [name |-> name,
     location |-> Pick(Locations, p),
     resource_group_name |-> ResGroup,
     security_rule |-> Pick(RuleLists, p),
     tags |-> Pick(TagMaps, p)]

\* ResourceData before the first apply: no ID, attributes as configured
NewData(c) ==
    [id |-> <<>>, name |-> c.name, location |-> c.location,
     resource_group_name |-> c.resource_group_name,
     security_rule |-> c.security_rule, tags |-> c.tags]

NoCall == [op |-> "none", err |-> Nil]

\* Nothing exists yet.  The names are interchangeable, so instance 1 is the
\* one named "nsgA"; the others take either name.
NsgInit ==
    /\ remote = [n \in Names |-> None]
    /\ locks = [n \in Names |-> None]
    /\ cfg \in {[p \in Procs |-> Config(p, f[p])] :
                  f \in {g \in [Procs -> Names] : g[1] = "nsgA"}}
    /\ d = [p \in Procs |-> NewData(cfg[p])]
    /\ pc = [p \in Procs |-> "idle"]
    /\ ret = [p \in Procs |-> NoCall]
    /\ readID = [p \in Procs |-> None]
    /\ polls = [p \in Procs |-> 0]
    /\ observed = [p \in Procs |-> Nil]
    /\ opsLeft = MaxOps

NsgIdle ==
    /\ remote = [n \in Names |-> None]
    /\ locks = [n \in Names |-> None]
    /\ cfg = [p \in Procs |-> Config(p, "nsgA")]
    /\ d = [p \in Procs |-> NewData(cfg[p])]
    /\ pc = [p \in Procs |-> "idle"]
    /\ ret = [p \in Procs |-> NoCall]
    /\ readID = [p \in Procs |-> None]
    /\ polls = [p \in Procs |-> 0]
    /\ observed = [p \in Procs |-> Nil]
    /\ opsLeft = 0

\* client.Get against the service: a transport failure, not found, or the object
StoreGet(name) ==
    {GetError(500)}
    \cup (IF name \notin Names \/ remote[name] = None
          THEN {GetError(404)}
          ELSE {LET o == remote[name][1]
                IN GetOK(Some(ResourceID(ResGroup, NsgType, name)), o.Name, o.Location,
                         Some([SecurityRules |-> Some(o.SecurityRules),
                               ProvisioningState |-> o.ProvisioningState]),
                         o.Tags)})

\* Create going on without waiting for the lock
LockSkipped(p) ==
    /\ pc[p] = "lock"
    /\ pc' = [pc EXCEPT ![p] = "put"]
    /\ UNCHANGED <<remote, locks, cfg, d, ret, readID, polls, observed, opsLeft>>
    /\ UNCHANGED notNsg

\* The handler returning e, with the unlock at the end of the success path
\* instead of deferred
CreateReturnUnlockOnSuccess(p, e) ==
    /\ pc' = [pc EXCEPT ![p] = "idle"]
    /\ ret' = [ret EXCEPT ![p] = [op |-> "create", err |-> e]]
    /\ readID' = [readID EXCEPT ![p] = None]
    /\ polls' = [polls EXCEPT ![p] = 0]
    /\ locks' = IF e = Nil THEN [locks EXCEPT ![cfg[p].name] = None] ELSE locks

\* Lines 130 and every return after it: the handler returns e, its locals
\* (read, the refresh count) are gone and the deferred azureRMUnlockByName runs
CreateReturn(p, e) ==
    /\ pc' = [pc EXCEPT ![p] = "idle"]
    /\ ret' = [ret EXCEPT ![p] = [op |-> "create", err |-> e]]
    /\ readID' = [readID EXCEPT ![p] = None]
    /\ polls' = [polls EXCEPT ![p] = 0]
    /\ locks' = [locks EXCEPT ![cfg[p].name] = None]

\* Lines 116-127: Create or Update is called; the rule list is built
CreateBegin(p) ==
    /\ pc[p] = "idle"
    /\ opsLeft > 0
    /\ opsLeft' = opsLeft - 1
    /\ observed' = [observed EXCEPT ![p] = Nil]
    /\ IF expandAzureRmSecurityRules(cfg[p].security_rule).err # Nil
       THEN /\ ret' = [ret EXCEPT ![p] =
                         [op |-> "create",
                          err |-> "Error Building list of Network Security Group Rules"]]
            /\ pc' = pc
       ELSE /\ ret' = [ret EXCEPT ![p] = NoCall]
            /\ pc' = [pc EXCEPT ![p] = "lock"]
    /\ UNCHANGED <<remote, locks, cfg, d, readID, polls>>
    /\ UNCHANGED notNsg

\* Line 129: azureRMLockByName(name, networkSecurityGroupResourceName) blocks
\* until the mutex of this name is free
Lock(p) ==
    /\ pc[p] = "lock"
    /\ locks[cfg[p].name] = None
    /\ locks' = [locks EXCEPT ![cfg[p].name] = Some(p)]
    /\ pc' = [pc EXCEPT ![p] = "put"]
    /\ UNCHANGED <<remote, cfg, d, ret, readID, polls, observed, opsLeft>>
    /\ UNCHANGED notNsg

\* Lines 132-139: the request body
SecurityGroupOf(c) ==
    [Name |-> c.name,
     Location |-> c.location,
     SecurityRules |-> expandAzureRmSecurityRules(c.security_rule).rules,
     Tags |-> expandTags(c.tags)]

\* Lines 141-145: CreateOrUpdate and the receive on its error channel
CreateOrUpdate(p) ==
    /\ pc[p] = "put"
    /\ \/ /\ CreateReturn(p, "CreateOrUpdate failed")
          /\ UNCHANGED remote
       \/ /\ \E st \in {IF remote[cfg[p].name] = None THEN "Creating" ELSE "Updating",
                        "Succeeded"} :
                remote' = [remote EXCEPT ![cfg[p].name] =
                             Some([ProvisioningState |-> st] @@ SecurityGroupOf(cfg[p]))]
          /\ pc' = [pc EXCEPT ![p] = "get"]
          /\ UNCHANGED <<locks, ret, readID, polls>>
    /\ UNCHANGED <<cfg, d, observed, opsLeft>>
    /\ UNCHANGED notNsg

\* Lines 147-153 with d.SetId(*read.ID) moved up from line 167
CreateGetSetsId(p) ==
    /\ pc[p] = "get"
    /\ \E r \in StoreGet(cfg[p].name), withID \in BOOLEAN :
          LET read == IF withID THEN r ELSE [r EXCEPT !.ID = None]
          IN IF read.err # Nil
             THEN /\ CreateReturn(p, "Get failed")
                  /\ UNCHANGED d
             ELSE IF read.ID = None
             THEN /\ CreateReturn(p, "Cannot read Virtual Network ID")
                  /\ UNCHANGED d
             ELSE /\ readID' = [readID EXCEPT ![p] = read.ID]
                  /\ d' = [d EXCEPT ![p].id = read.ID[1]]
                  /\ pc' = [pc EXCEPT ![p] = "wait"]
                  /\ UNCHANGED <<locks, ret, polls>>
    /\ UNCHANGED <<remote, cfg, observed, opsLeft>>
    /\ UNCHANGED notNsg

\* Lines 147-153: the follow-up Get; the answer may carry no ID
CreateGet(p) ==
    /\ pc[p] = "get"
    /\ \E r \in StoreGet(cfg[p].name), withID \in BOOLEAN :
          LET read == IF withID THEN r ELSE [r EXCEPT !.ID = None]
          IN IF read.err # Nil
             THEN CreateReturn(p, "Get failed")
             ELSE IF read.ID = None
             THEN CreateReturn(p, "Cannot read Virtual Network ID")
             ELSE /\ readID' = [readID EXCEPT ![p] = read.ID]
                  /\ pc' = [pc EXCEPT ![p] = "wait"]
                  /\ UNCHANGED <<locks, ret, polls>>
    /\ UNCHANGED <<remote, cfg, d, observed, opsLeft>>
    /\ UNCHANGED notNsg


\* Lines 301-310: the refresh function, from Get's answer
networkSecurityGroupStateRefreshFunc(resp) ==
    IF resp.err # Nil
    THEN [err |-> "Error issuing read request in networkSecurityGroupStateRefreshFunc",
          state |-> ""]
    ELSE [err |-> Nil, state |-> resp.Props[1].ProvisioningState]

RefreshFailed == "<refresh error>"

WaitError(cause) ==
    CASE cause = "timeout" -> "Error waiting for NSG to become available: timeout"
      [] cause = "refresh" -> "Error waiting for NSG to become available: refresh error"
      [] OTHER -> "Error waiting for NSG to become available: unexpected state"

\* WaitForState with no Timeout
WaitGivesUpNever(p) == FALSE

\* Line 160: the 30 minute Timeout has passed, counted in refreshes
WaitGivesUp(p) == polls[p] >= MaxPolls

\* Lines 156-165: one round of stateConf.WaitForState(): it gives up at the
\* Timeout, else refreshes and returns on an error, on a Target state and on a
\* state that is neither Target nor Pending
WaitForState(p) ==
    /\ pc[p] = "wait"
    /\ IF WaitGivesUp(p)
       THEN /\ CreateReturn(p, WaitError("timeout"))
            /\ UNCHANGED observed
       ELSE \E r \in StoreGet(cfg[p].name) :
              LET res == networkSecurityGroupStateRefreshFunc(r)
              IN IF res.err # Nil
                 THEN /\ observed' = [observed EXCEPT ![p] = RefreshFailed]
                      /\ CreateReturn(p, WaitError("refresh"))
                 ELSE /\ observed' = [observed EXCEPT ![p] = res.state]
                      /\ IF res.state \in Target
                         THEN /\ pc' = [pc EXCEPT ![p] = "read"]
                              /\ UNCHANGED <<locks, ret, readID, polls>>
                         ELSE IF res.state \in Pending
                         THEN /\ polls' = [polls EXCEPT ![p] = @ + 1]
                              /\ UNCHANGED <<pc, locks, ret, readID>>
                         ELSE CreateReturn(p, WaitError("unexpected"))
    /\ UNCHANGED <<remote, cfg, d, opsLeft>>
    /\ UNCHANGED notNsg

\* Lines 167-169: d.SetId(*read.ID), then Read; its result is Create's
CreateRead(p) ==
    /\ pc[p] = "read"
    /\ LET data == [d[p] EXCEPT !.id = readID[p][1]]
           t == NsgReadTarget(data)
       IN IF t.err # Nil
          THEN /\ d' = [d EXCEPT ![p] = data]
               /\ CreateReturn(p, t.err)
          ELSE \E r \in StoreGet(t.name) :
                 LET out == NsgReadResponse(data, t.resGroup, r)
                 IN /\ d' = [d EXCEPT ![p] = out.d]
                    /\ CreateReturn(p, out.err)
    /\ UNCHANGED <<remote, cfg, observed, opsLeft>>
    /\ UNCHANGED notNsg

\* Lines 172-202: Read called on its own (refresh)
Read(p) ==
    /\ pc[p] = "idle"
    /\ opsLeft > 0
    /\ d[p].id # <<>>
    /\ opsLeft' = opsLeft - 1
    /\ LET t == NsgReadTarget(d[p])
       IN IF t.err # Nil
          THEN /\ ret' = [ret EXCEPT ![p] = [op |-> "read", err |-> t.err]]
               /\ UNCHANGED d
          ELSE \E r \in StoreGet(t.name) :
                 LET out == NsgReadResponse(d[p], t.resGroup, r)
                 IN /\ d' = [d EXCEPT ![p] = out.d]
                    /\ ret' = [ret EXCEPT ![p] = [op |-> "read", err |-> out.err]]
    /\ UNCHANGED <<remote, locks, cfg, pc, readID, polls, observed>>
    /\ UNCHANGED notNsg

\* Lines 204-214: Delete is called and issues client.Delete
DeleteBegin(p) ==
    /\ pc[p] = "idle"
    /\ opsLeft > 0
    /\ d[p].id # <<>>
    /\ opsLeft' = opsLeft - 1
    /\ IF parseAzureResourceID(d[p].id).err # Nil
       THEN /\ ret' = [ret EXCEPT ![p] =
                         [op |-> "delete", err |-> parseAzureResourceID(d[p].id).err]]
            /\ pc' = pc
       ELSE /\ ret' = [ret EXCEPT ![p] = NoCall]
            /\ pc' = [pc EXCEPT ![p] = "deleting"]
    /\ UNCHANGED <<remote, locks, cfg, d, readID, polls, observed>>
    /\ UNCHANGED notNsg

\* What Delete answers: the error, and the HTTP status of the response
DeleteResponse(err, status) == [err |-> err, StatusCode |-> status]

\* Lines 214-217: the error received from Delete's channel is returned as it is
NsgDeleteResult(resp) == resp.err

\* Lines 215-217: the receive on Delete's error channel; the error is returned
\* as it is.  After a delete without error Terraform drops the ID.
DeleteAwait(p) ==
    /\ pc[p] = "deleting"
    /\ pc' = [pc EXCEPT ![p] = "idle"]
    /\ LET name == NsgReadTarget(d[p]).name
       IN \E e \in {Nil, "delete failed"}
                   \cup (IF name \notin Names \/ remote[name] = None
                         THEN {"not found"} ELSE {}) :
            /\ ret' = [ret EXCEPT ![p] =
                         [op |-> "delete",
                          err |-> NsgDeleteResult(DeleteResponse(e,
                                     IF e = Nil THEN 200
                                     ELSE IF e = "not found" THEN 404 ELSE 500))]]
            /\ remote' = IF e = Nil /\ name \in Names
                         THEN [remote EXCEPT ![name] = None] ELSE remote
            /\ d' = IF e = Nil THEN [d EXCEPT ![p].id = <<>>] ELSE d
    /\ UNCHANGED <<locks, cfg, readID, polls, observed, opsLeft>>
    /\ UNCHANGED notNsg

\* Azure finishing an asynchronous provisioning
Provision(n) ==
    /\ remote[n] # None
    /\ remote[n][1].ProvisioningState \in Pending
    /\ \E st \in {"Succeeded", "Failed"} :
          remote' = [remote EXCEPT ![n] = Some([@[1] EXCEPT !.ProvisioningState = st])]
    /\ UNCHANGED <<locks, cfg, d, pc, ret, readID, polls, observed, opsLeft>>
    /\ UNCHANGED notNsg

----------------------------------------------------------------------------
(* Automation account: Read, as a function of local data and Get's answer *)

AcctType == "automationAccounts"

AcctGetError(status) ==
    [err |-> "request failed", StatusCode |-> status, Name |-> Nil,
     Location |-> <<>>, Sku |-> [Name |-> Nil], Tags |-> <<>>]

AcctGetOK(name, location, sku, tags) ==
    [err |-> Nil, StatusCode |-> 200, Name |-> name, Location |-> location,
     Sku |-> sku, Tags |-> tags]

\* Lines 149-157: a list of one map holding the SKU's name
flattenSku(sku) == <<[name |-> sku.Name]>>

\* Lines 116-121: the d.Set calls after a successful Get
AcctSetAttributes(data, resGroup, resp) ==
    [data EXCEPT !.name = resp.Name,
                 !.location = azureRMNormalizeLocation(resp.Location),
                 !.resource_group_name = resGroup,
                 !.sku = flattenSku(resp.Sku),
                 !.tags = flattenTags(resp.Tags)]

\* Lines 107-114: the Get returned an error
AcctReadGetFailed(data, resp) ==
    IF ResponseWasNotFound(resp)
    THEN [d |-> [data EXCEPT !.id = <<>>], err |-> Nil]
    ELSE [d |-> data, err |-> "Error making Read request on AzureRM Automation Account"]

\* Lines 106-123: the handler from Get's answer on
AcctReadResponse(data, resGroup, resp) ==
    IF resp.err # Nil
    THEN AcctReadGetFailed(data, resp)
    ELSE [d |-> AcctSetAttributes(data, resGroup, resp), err |-> Nil]

\* Lines 99-104: what Read asks Get for; err set when the ID does not parse
AcctReadTarget(data) ==
    LET id == parseAzureResourceID(data.id)
    IN [err |-> id.err, resGroup |-> id.ResourceGroup,
        name |-> PathLookup(id.Path, AcctType)]

----------------------------------------------------------------------------
(* One Read call on any local data and any answer of Get *)

\* Rule lists the service may return: expanded configurations, a rule without
\* properties, a rule with unset optional fields
SdkRuleLists ==
    {expandAzureRmSecurityRules(Pick(RuleLists, i)).rules : i \in 1..Len(RuleLists)}
    \cup {<<[Name |-> "bare", Props |-> None]>>,
          <<[Name |-> "partial",
             Props |-> Some([SourcePortRange |-> Nil, DestinationPortRange |-> "80",
                             SourceAddressPrefix |-> "*", DestinationAddressPrefix |-> Nil,
                             Priority |-> 150, Access |-> "Allow",
                             Direction |-> "Inbound", Protocol |-> "Tcp",
                             Description |-> Nil])]>>}

RdProps ==
    {None, Some([SecurityRules |-> None, ProvisioningState |-> "Succeeded"])}
    \cup {Some([SecurityRules |-> Some(l), ProvisioningState |-> "Succeeded"]) :
            l \in SdkRuleLists}

RdRange(seq) == {seq[i] : i \in 1..Len(seq)}

RdIDs(type) ==
    {ResourceID(ResGroup, type, "nsgA"), ResourceID("rg2", type, "nsgB"), <<"imported">>}

RdNsgResponses ==
    {GetError(404), GetError(500)}
    \cup {GetOK(Some(ResourceID(ResGroup, NsgType, n)), n, l, pr, t) :
            n \in Names, l \in RdRange(Locations), pr \in RdProps, t \in RdRange(TagMaps)}

RdNsgData ==
    [id : RdIDs(NsgType), name : Names, location : {Locations[1], Locations[2]},
     resource_group_name : {ResGroup},
     security_rule : {RuleLists[1], RuleLists[2]},
     tags : {TagMaps[1], TagMaps[2]}]

Skus == {[Name |-> "Basic"], [Name |-> "Free"]}

RdAcctResponses ==
    {AcctGetError(404), AcctGetError(500)}
    \cup {AcctGetOK(n, l, sku, t) :
            n \in Names, l \in RdRange(Locations), sku \in Skus, t \in RdRange(TagMaps)}

RdAcctData ==
    [id : RdIDs(AcctType), name : Names, location : {Locations[1], Locations[2]},
     resource_group_name : {ResGroup, "rg2"},
     sku : {<<[name |-> "Basic"]>>, <<[name |-> "basic"]>>},
     tags : {TagMaps[1], TagMaps[2]}]

RdIdle == rd = [kind |-> "none"]

RdInit ==
    \/ rd \in [kind : {"nsg"}, d : RdNsgData, resp : RdNsgResponses, out : {None}]
    \/ rd \in [kind : {"acct"}, d : RdAcctData, resp : RdAcctResponses, out : {None}]

\* resourceArmNetworkSecurityGroupRead
NsgRead ==
    /\ rd.kind = "nsg"
    /\ rd.out = None
    /\ LET t == NsgReadTarget(rd.d)
       IN rd' = [rd EXCEPT !.out =
                   Some(IF t.err # Nil THEN [d |-> rd.d, err |-> t.err]
                        ELSE NsgReadResponse(rd.d, t.resGroup, rd.resp))]
    /\ UNCHANGED notRd

\* resourceArmAutomationAccountRead
AcctRead ==
    /\ rd.kind = "acct"
    /\ rd.out = None
    /\ LET t == AcctReadTarget(rd.d)
       IN rd' = [rd EXCEPT !.out =
                   Some(IF t.err # Nil THEN [d |-> rd.d, err |-> t.err]
                        ELSE AcctReadResponse(rd.d, t.resGroup, rd.resp))]
    /\ UNCHANGED notRd

----------------------------------------------------------------------------
(* Automation account create/update and delete, and network security group *)
(* delete, called one after another on one resource.  The local data has   *)
(* the automation account's attributes; the network security group's       *)
(* delete uses the ID alone.                                                *)

MaxCalls == 3

SeqKinds == {"nsg", "acct"}

SeqType(kind) == IF kind = "nsg" THEN NsgType ELSE AcctType

SeqName == "nsgA"

SeqConfigs ==
    [name : {SeqName}, location : {Locations[1], Locations[2]},
     resource_group_name : {ResGroup},
     sku : {<<[name |-> "Basic"]>>, <<[name |-> "Free"]>>},
     tags : {TagMaps[1]}]

\* ResourceData holding the configured attributes
SeqData(c) ==
    [id |-> <<>>, name |-> c.name, location |-> c.location,
     resource_group_name |-> c.resource_group_name, sku |-> c.sku, tags |-> c.tags]

\* Automation account lines 159-169
expandSku(data) == [Name |-> data.sku[1].name]

\* Automation account lines 62-76: what CreateOrUpdate is sent
AccountOf(c) ==
    [Name |-> c.name, Location |-> c.location, Sku |-> expandSku(c),
     Tags |-> expandTags(c.tags)]

\* client.Get on the account, the store holding rem
AcctStoreGet(rem) ==
    {AcctGetError(500)}
    \cup (IF rem = None
          THEN {AcctGetError(404)}
          ELSE {AcctGetOK(rem[1].Name, rem[1].Location, rem[1].Sku, rem[1].Tags)})

\* Automation account lines 138-146 without the ResponseWasNotFound test
AcctDeleteResultNotFoundIsError(resp) ==
    IF resp.err # Nil
    THEN "Error issuing AzureRM delete request for Automation Account"
    ELSE Nil

\* Automation account lines 138-146: a not-found answer counts as success
AcctDeleteResult(resp) ==
    IF resp.err # Nil
    THEN IF ResponseWasNotFound(resp)
         THEN Nil
         ELSE "Error issuing AzureRM delete request for Automation Account"
    ELSE Nil

\* Automation account lines 78-94: the handler from CreateOrUpdate's error on;
\* read is the follow-up Get's answer, readResp the answer Read's Get receives
AcctCreateOutcome(data, createErr, read, readResp) ==
    IF createErr # Nil
    THEN [d |-> data, err |-> createErr, readDone |-> FALSE]
    ELSE IF read.err # Nil
    THEN [d |-> data, err |-> read.err, readDone |-> FALSE]
    ELSE IF read.ID = None
    THEN [d |-> data, err |-> "Cannot read Automation Account ID", readDone |-> FALSE]
    ELSE LET withID == [data EXCEPT !.id = read.ID[1]]
             t == AcctReadTarget(withID)
             out == IF t.err # Nil
                    THEN [d |-> withID, err |-> t.err]
                    ELSE AcctReadResponse(withID, t.resGroup, readResp)
         IN [d |-> out.d, err |-> out.err, readDone |-> TRUE]

NoSeqCall ==
    [op |-> "none", before |-> <<>>, existed |-> FALSE, createErr |-> Nil,
     resp |-> None, readDone |-> FALSE, err |-> Nil]

SeqIdle == crud = [kind |-> "none"]

\* The resource is in Terraform's state or not, with a good or a malformed
\* ID, and exists remotely or not
SeqInit ==
    \E kind \in SeqKinds, c \in SeqConfigs, present \in BOOLEAN :
      \E id \in RdIDs(SeqType(kind)) \cup (IF kind = "acct" THEN {<<>>} ELSE {}) :
        crud = [kind |-> kind,
               cfg |-> c,
               remote |-> IF present THEN Some(AccountOf(c)) ELSE None,
               d |-> [SeqData(c) EXCEPT !.id = id],
               call |-> NoSeqCall,
               removed |-> FALSE,
               left |-> MaxCalls]

\* Whether the object a delete names is the one the store holds
SeqTargetExists(resGroup, name) ==
    resGroup = ResGroup /\ name = crud.cfg.name /\ crud.remote # None

\* client.Delete against the service: a transport failure, the object deleted,
\* or nothing there to delete, answered with 204 or with a not-found error
SeqDeleteAnswers(resGroup, name) ==
    {DeleteResponse("request failed", 500)}
    \cup (IF SeqTargetExists(resGroup, name)
          THEN {DeleteResponse(Nil, 200)}
          ELSE {DeleteResponse(Nil, 204), DeleteResponse("not found", 404)})

\* A delete handler's call on the resource, target being the parsed ID; the
\* handler leaves the local ID alone
SeqDelete(target) ==
    IF target.err # Nil
    THEN crud' = [crud EXCEPT !.call = [NoSeqCall EXCEPT !.op = "delete",
                                                       !.before = crud.d,
                                                       !.err = target.err],
                            !.left = @ - 1]
    ELSE \E resp \in SeqDeleteAnswers(target.resGroup, target.name) :
           LET existed == SeqTargetExists(target.resGroup, target.name)
           IN crud' = [crud EXCEPT
                        !.remote = IF existed /\ resp.err = Nil THEN None ELSE @,
                        !.removed = @ \/ (existed /\ resp.err = Nil),
                        !.call = [NoSeqCall EXCEPT !.op = "delete",
                                                   !.before = crud.d,
                                                   !.existed = existed,
                                                   !.resp = Some(resp),
                                                   !.err = IF crud.kind = "acct"
                                                          THEN AcctDeleteResult(resp)
                                                          ELSE NsgDeleteResult(resp)],
                        !.left = @ - 1]

\* resourceArmAutomationAccountCreateUpdate
AcctCreateUpdate ==
    /\ crud.kind = "acct"
    /\ crud.left > 0
    /\ \E createErr \in {Nil, "CreateOrUpdate failed"} :
         LET rem == IF createErr = Nil THEN Some(AccountOf(crud.cfg)) ELSE crud.remote
         IN \E got \in AcctStoreGet(rem), withID \in BOOLEAN,
               readResp \in AcctStoreGet(rem) :
              LET read == [ID |-> IF got.err = Nil /\ withID
                                  THEN Some(ResourceID(ResGroup, AcctType, crud.cfg.name))
                                  ELSE None] @@ got
                  out == AcctCreateOutcome(crud.d, createErr, read, readResp)
              IN crud' = [crud EXCEPT
                           !.remote = rem,
                           !.removed = IF createErr = Nil THEN FALSE ELSE @,
                           !.d = out.d,
                           !.call = [op |-> "create", before |-> crud.d,
                                     existed |-> crud.remote # None,
                                     createErr |-> createErr,
                                     resp |-> IF createErr = Nil THEN Some(read) ELSE None,
                                     readDone |-> out.readDone, err |-> out.err],
                           !.left = @ - 1]
    /\ UNCHANGED notSeq

\* resourceArmAutomationAccountDelete
AcctDelete ==
    /\ crud.kind = "acct"
    /\ crud.left > 0
    /\ crud.d.id # <<>>
    /\ SeqDelete(AcctReadTarget(crud.d))
    /\ UNCHANGED notSeq

\* resourceArmNetworkSecurityGroupDelete
NsgDelete ==
    /\ crud.kind = "nsg"
    /\ crud.left > 0
    /\ crud.d.id # <<>>
    /\ SeqDelete(NsgReadTarget(crud.d))
    /\ UNCHANGED notSeq

----------------------------------------------------------------------------
(* Specifications *)

NsgStep ==
    \/ \E p \in Procs :
          \/ CreateBegin(p)
          \/ Lock(p)
          \/ CreateOrUpdate(p)
          \/ CreateGet(p)
          \/ WaitForState(p)
          \/ CreateRead(p)
          \/ Read(p)
          \/ DeleteBegin(p)
          \/ DeleteAwait(p)
    \/ \E n \in Names : Provision(n)

Next == NsgStep

Init == NsgInit /\ RdIdle /\ NameIdle /\ RuleIdle /\ SeqIdle

Spec == Init /\ [][Next]_vars

NextRead == NsgRead \/ AcctRead

InitRead == NsgIdle /\ RdInit /\ NameIdle /\ RuleIdle /\ SeqIdle

SpecRead == InitRead /\ [][NextRead]_vars

NextName == ValidateName

InitName == NsgIdle /\ RdIdle /\ NameInit /\ RuleIdle /\ SeqIdle

SpecName == InitName /\ [][NextName]_vars

NextRules == ExpandRules \/ FlattenRules

InitRules == NsgIdle /\ RdIdle /\ NameIdle /\ RuleInit /\ SeqIdle

SpecRules == InitRules /\ [][NextRules]_vars

SeqStep == AcctCreateUpdate \/ AcctDelete \/ NsgDelete

NextSeq == SeqStep

InitSeq == NsgIdle /\ RdIdle /\ NameIdle /\ RuleIdle /\ SeqInit

SpecSeq == InitSeq /\ [][NextSeq]_vars

\* Create/update of either resource: the network security group's handlers
\* running concurrently, or the automation account's called in sequence
NextCrud == NsgStep \/ SeqStep

InitCrud == Init \/ InitSeq

SpecCrud == InitCrud /\ [][NextCrud]_vars

\* Create, Update, Read and Delete are called by Terraform's goroutines, which
\* keep running; sync.Mutex hands the lock to a goroutine that keeps waiting
Fairness ==
    \A p \in Procs :
        /\ SF_vars(Lock(p))
        /\ WF_vars(CreateOrUpdate(p))
        /\ WF_vars(CreateGet(p))
        /\ WF_vars(WaitForState(p))
        /\ WF_vars(CreateRead(p))
        /\ WF_vars(DeleteAwait(p))

\* Every instance is configured with the same name: the case in which a create
\* can be kept waiting for the lock
InitLive == Init /\ \A p \in Procs : cfg[p].name = "nsgA"

SpecLive == InitLive /\ [][Next]_vars /\ Fairness

----------------------------------------------------------------------------
(* Properties *)

CreateSection == {"put", "get", "wait", "read"}

InCreateSection(p) == pc[p] \in CreateSection

\* p has a mutating remote call or its follow-up steps in progress
Mutating(p) == InCreateSection(p) \/ pc[p] = "deleting"

\* The security group name p's running handler works on
TargetName(p) == IF pc[p] = "deleting" THEN NsgReadTarget(d[p]).name ELSE cfg[p].name

\* C1: no two handlers (create, update or delete) working on the same security
\* group name are ever inside a mutating remote call and its follow-up steps at
\* the same time.
C1_NoConcurrentMutation ==
    \A p, q \in Procs :
        (p # q /\ Mutating(p) /\ Mutating(q)) => TargetName(p) # TargetName(q)

C2_IdRecordedAfterSucceeded ==
    \A p \in Procs :
        (d'[p].id # d[p].id /\ d'[p].id # <<>>) => observed'[p] = "Succeeded"

C2_SuccessOnlyAfterSucceededState ==
    \A p \in Procs :
        /\ ret[p] = [op |-> "create", err |-> Nil] => observed[p] = "Succeeded"
        /\ pc[p] = "read" => observed[p] = "Succeeded"
        /\ pc[p] = "wait" => observed[p] \in {Nil, "Creating", "Updating"}
        /\ (pc[p] = "idle" /\ ret[p].op = "create"
              /\ observed[p] \in {"Creating", "Updating"}) =>
                ret[p].err = WaitError("timeout")

\* C2: a create/update returns success, reaches its final SetId/Read, or puts
\* an ID into local state only when its last refresh observed "Succeeded";
\* while it is polling, what it has observed so far is "Creating" or "Updating",
\* and a create that returned with such a state observed last returned the
\* wait's timeout error.
C2_SuccessOnlyAfterSucceeded ==
    []C2_SuccessOnlyAfterSucceededState /\ [][C2_IdRecordedAfterSucceeded]_vars

\* A create is about to record its ID after polling a pending state first
C2_Witness ==
    \E p \in Procs :
        /\ pc[p] = "read"
        /\ polls[p] > 0
        /\ observed[p] = "Succeeded"
        /\ d[p].id = <<>>

\* C6: two create/update calls on the same name are never both between taking
\* the lock and returning; a lock is held only by a call on that very name, so
\* a call waiting for the lock of a name no other call is working on can take it.
C6_CreateMutualExclusion ==
    /\ \A p, q \in Procs :
          (p # q /\ InCreateSection(p) /\ InCreateSection(q)) =>
              cfg[p].name # cfg[q].name
    /\ \A n \in Names : locks[n] # None => cfg[locks[n][1]].name = n
    /\ \A p \in Procs :
          (pc[p] = "lock"
             /\ \A q \in Procs : InCreateSection(q) => cfg[q].name # cfg[p].name) =>
                ENABLED Lock(p)

\* One create waits for the lock while another, on the same name, polls
C6_Witness ==
    \E p, q \in Procs :
        /\ p # q
        /\ cfg[p].name = cfg[q].name
        /\ pc[p] = "lock"
        /\ pc[q] = "wait"

\* C7: once a refresh has returned an error or a state outside "Creating",
\* "Updating", "Succeeded", the create is over and has returned the error
\* wrapping the wait's failure.
C7_WaitFailureIsError ==
    \A p \in Procs :
        observed[p] \notin {Nil, "Creating", "Updating", "Succeeded"} =>
            /\ pc[p] \in {"idle", "deleting"}
            /\ ret[p].op = "create" =>
                 ret[p].err = IF observed[p] = RefreshFailed
                              THEN WaitError("refresh")
                              ELSE WaitError("unexpected")

C7_Witness ==
    \E p, q \in Procs :
        /\ observed[p] = "Failed"
        /\ ret[p] = [op |-> "create", err |-> WaitError("unexpected")]
        /\ observed[q] = RefreshFailed
        /\ ret[q] = [op |-> "create", err |-> WaitError("refresh")]

CreateOutcomes ==
    {Nil, "CreateOrUpdate failed", "Get failed", "Cannot read Virtual Network ID",
     WaitError("timeout"), WaitError("refresh"), WaitError("unexpected"),
     "Error making Read request on Azure Network Security Group"}

C10_LockReleasedOnReturn ==
    \A n \in Names : locks[n] # None => InCreateSection(locks[n][1])

\* A create failed in its wait, and a later create on the same name holds the lock
C10_Witness ==
    \E p, q \in Procs :
        /\ p # q
        /\ cfg[p].name = cfg[q].name
        /\ pc[p] = "idle"
        /\ ret[p].op = "create"
        /\ ret[p].err = WaitError("unexpected")
        /\ locks[cfg[q].name] = Some(q)

\* The rules C3 speaks of
NameTooShort(s) == Len(s) < 5
NameTooLong(s) == Len(s) >= 50
NameHasOtherChar(s) == \E i \in 1..Len(s) : s[i] \notin Letters \cup Digits

NameRulesBroken(s) ==
    (IF NameTooShort(s) THEN 1 ELSE 0) + (IF NameTooLong(s) THEN 1 ELSE 0)
    + (IF NameHasOtherChar(s) THEN 1 ELSE 0)

\* C3: the validation reports no error exactly for names of letters and digits
\* of length 5 to 49; a name breaking exactly one of the three rules gets
\* exactly one error; the names of the test table get the error counts the
\* table expects.
C3_NameValidation ==
    nameErrs # None =>
        /\ nameErrs[1] = 0 <=>
             (~NameHasOtherChar(nameIn) /\ Len(nameIn) >= 5 /\ Len(nameIn) <= 49)
        /\ NameRulesBroken(nameIn) = 1 => nameErrs[1] = 1
        /\ \A tc \in TestCases : tc.Value = nameIn => nameErrs[1] = tc.ErrCount

\* A name of letters and digits, 50 long, was refused with one error
C3_Witness ==
    /\ nameErrs = Some(1)
    /\ Len(nameIn) = 50
    /\ ~NameHasOtherChar(nameIn)

ReadTarget == IF rd.kind = "nsg" THEN NsgReadTarget(rd.d) ELSE AcctReadTarget(rd.d)

\* A Read has been made with an ID that parses and Get returned the object
ReadSucceeded ==
    /\ rd.kind \in {"nsg", "acct"}
    /\ rd.out # None
    /\ ReadTarget.err = Nil
    /\ rd.resp.err = Nil

HasNoUpperCaseOrSpace(s) ==
    \A i \in 1..Len(s) : s[i] # " " /\ \A j \in 1..Len(UpperCase) : s[i] # UpperCase[j]

\* What Read leaves in name, resource_group_name, location and tags
ReadCommonAttributes ==
    LET out == rd.out[1]
    IN /\ out.err = Nil
       /\ out.d.id = rd.d.id
       /\ out.d.name = rd.resp.Name
       /\ out.d.resource_group_name = ReadTarget.resGroup
       /\ out.d.location = azureRMNormalizeLocation(rd.resp.Location)
       /\ HasNoUpperCaseOrSpace(out.d.location)
       /\ out.d.tags = rd.resp.Tags

\* The security_rule list of the object Get returned, flattened
RemoteRules ==
    IF rd.resp.Props = None \/ rd.resp.Props[1].SecurityRules = None THEN <<>>
    ELSE [i \in 1..Len(rd.resp.Props[1].SecurityRules[1]) |->
            FlattenRule(rd.resp.Props[1].SecurityRules[1][i])]

\* C4 as claimed: after a Read that succeeds, the local attributes, the
\* security_rule list included, are those of the object Get returned, whatever
\* local state held before.
C4_ReadMirrorsRemote ==
    ReadSucceeded =>
        /\ ReadCommonAttributes
        /\ rd.kind = "nsg" => rd.out[1].d.security_rule = RemoteRules
        /\ rd.kind = "acct" => rd.out[1].d.sku = <<[name |-> rd.resp.Sku.Name]>>

\* C4 amended: as claimed, but the security_rule list is the returned object's
\* only when the object carries a properties block; when it carries none the
\* list stays what it was.
C4_ReadMirrorsRemoteProperties ==
    ReadSucceeded =>
        /\ ReadCommonAttributes
        /\ rd.kind = "nsg" =>
             rd.out[1].d.security_rule =
                 IF rd.resp.Props # None THEN RemoteRules ELSE rd.d.security_rule
        /\ rd.kind = "acct" => rd.out[1].d.sku = <<[name |-> rd.resp.Sku.Name]>>

\* A Read replaced every attribute of a security group by the remote values
C4_Witness ==
    /\ ReadSucceeded
    /\ rd.kind = "nsg"
    /\ rd.resp.Props # None
    /\ rd.out[1].d.security_rule # rd.d.security_rule
    /\ rd.out[1].d.name # rd.d.name
    /\ rd.out[1].d.location # rd.resp.Location
    /\ rd.out[1].d.tags # rd.d.tags

\* C5: when Get fails with not found, Read empties the ID, changes nothing
\* else and returns no error; on any other Get failure it returns an error and
\* leaves the local data as it was.
C5_ReadGetFailure ==
    (rd.kind \in {"nsg", "acct"} /\ rd.out # None /\ ReadTarget.err = Nil
       /\ rd.resp.err # Nil) =>
        IF rd.resp.StatusCode = 404
        THEN /\ rd.out[1].err = Nil
             /\ rd.out[1].d = [rd.d EXCEPT !.id = <<>>]
        ELSE /\ rd.out[1].err # Nil
             /\ rd.out[1].d = rd.d

\* A Read of a security group failed with an error other than not found
C5_Witness ==
    /\ rd.kind = "nsg"
    /\ rd.out # None
    /\ ReadTarget.err = Nil
    /\ rd.resp.err # Nil
    /\ rd.resp.StatusCode = 500
    /\ rd.out[1].err # Nil
    /\ rd.out[1].d.id # <<>>

\* C8: flatten after expand gives a list of the same length and order whose
\* rules carry the configured values under the configured keys, the
\* description only when it is not empty.
C8_ExpandFlattenRoundTrip ==
    ruleFlat # None =>
        /\ Len(ruleFlat[1]) = Len(ruleCfg)
        /\ \A i \in 1..Len(ruleCfg) :
              /\ DOMAIN ruleFlat[1][i] =
                    IF ruleCfg[i]["description"] = "" THEN RuleKeys \ {"description"}
                    ELSE RuleKeys
              /\ \A k \in DOMAIN ruleFlat[1][i] : ruleFlat[1][i][k] = ruleCfg[i][k]

\* A list with a described and an undescribed rule went through expand and flatten
C8_Witness ==
    /\ ruleFlat # None
    /\ Len(ruleCfg) >= 2
    /\ ruleCfg[1]["description"] = ""
    /\ ruleCfg[2]["description"] # ""
    /\ ruleCfg[2]["source_port_range"] # ruleCfg[2]["destination_port_range"]

\* The errors a network security group create returns before its final Read
CreateFailures ==
    {"CreateOrUpdate failed", "Get failed", "Cannot read Virtual Network ID",
     WaitError("timeout"), WaitError("refresh"), WaitError("unexpected")}

BeforeRead == {"lock", "put", "get", "wait"}

\* Network security group: no step taken while a create is before its final
\* Read changes the instance's local data; a create ending there returns one
\* of the failures, and the step that performs the Read returns none of them
NsgFailedCreateStep ==
    \A p \in Procs :
        /\ pc[p] \in BeforeRead => d'[p] = d[p]
        /\ (pc[p] \in BeforeRead /\ pc'[p] = "idle") =>
              /\ ret'[p].op = "create"
              /\ ret'[p].err \in CreateFailures
              /\ ret'[p].err # Nil
        /\ pc[p] = "read" => ret'[p].err \notin CreateFailures

\* The call was a create/update in which CreateOrUpdate failed, the follow-up
\* Get failed, or the Get's answer carried no ID
AcctCreateFailed ==
    /\ crud.kind = "acct"
    /\ crud.call.op = "create"
    /\ \/ crud.call.createErr # Nil
       \/ crud.call.resp[1].err # Nil
       \/ crud.call.resp[1].ID = None

\* Automation account: a failed create/update returned an error, left the
\* local data as it was and did not perform the Read
AcctFailedCreate ==
    AcctCreateFailed =>
        /\ crud.call.err # Nil
        /\ crud.d = crud.call.before
        /\ ~crud.call.readDone

\* C11: a create/update in which CreateOrUpdate fails, the follow-up Get
\* fails, the Get returns no ID or (network security group) the provisioning
\* wait fails returns an error, leaves the local ID as it was before the call
\* and does not perform the final Read.
C11_FailedCreateRecordsNoID ==
    /\ []AcctFailedCreate
    /\ [][NsgFailedCreateStep]_vars

\* An update of a network security group that has its ID failed in the wait
C11_Witness ==
    \E p \in Procs :
        /\ pc[p] = "idle"
        /\ ret[p] = [op |-> "create", err |-> WaitError("unexpected")]
        /\ d[p].id # <<>>

\* C12: an automation account delete returns success when Delete succeeds or
\* answers not found, so whenever the account does not exist and the service
\* answers, and an error on every other failure; a network security group
\* delete returns the error Delete yields, a not-found error included.
C12_DeleteIdempotence ==
    crud.call.op = "delete" =>
        IF crud.call.resp = None
        THEN crud.call.err # Nil
        ELSE LET resp == crud.call.resp[1]
             IN /\ crud.kind = "acct" =>
                      /\ (~crud.call.existed /\ resp.StatusCode \in {204, 404}) =>
                            crud.call.err = Nil
                      /\ resp.err = Nil => crud.call.err = Nil
                      /\ (resp.err # Nil /\ resp.StatusCode # 404) => crud.call.err # Nil
                /\ crud.kind = "nsg" =>
                      /\ crud.call.err = resp.err
                      /\ resp.StatusCode = 404 => crud.call.err # Nil

\* A delete removed the account, and a second delete was answered not found
\* and returned success
C12_Witness ==
    /\ crud.kind = "acct"
    /\ crud.call.op = "delete"
    /\ crud.removed
    /\ ~crud.call.existed
    /\ crud.call.resp = Some(DeleteResponse("not found", 404))
    /\ crud.call.err = Nil

====
